---- MODULE Spec2Model ----
(***************************************************************************)
(* A model of the form engine of react-ux-form (useForm): the per-field    *)
(* state map, the validation arbiter (internalValidateField) with its      *)
(* staleness check, the debounce slots, the mount map, the callback        *)
(* registry, the form status and the submit / reset orchestration.         *)
(*                                                                         *)
(* Every host-visible entry point is an operator from the current maps to  *)
(* the maps it leaves, together with what the call did to its environment  *)
(* (validator invocations, listener notifications, focus requests, handler *)
(* invocations); the action of that entry point commits the maps.  The     *)
(* suspension points of the code (a validator's promise, a debounce timer, *)
(* the effect returned by onSuccess / onFailure) are separate actions that *)
(* the environment takes in any order.                                     *)
(***************************************************************************)
EXTENDS Integers, Sequences, FiniteSets, Bags, TLC

VARIABLES
  config,      \* config.current : per-field settings (fixed after Init)
  states,      \* states.current : name -> {value, talkative, validity}
  callbacks,   \* callbacks.current : name -> set of registered callbacks
  mounteds,    \* mounteds.current : name -> boolean
  timeouts,    \* timeouts.current : name -> timer id, 0 for undefined
  timers,      \* the host's timers set and neither fired nor cleared
  formStatus,  \* formStatus.current
  inflight,    \* bag of validator promises that have not settled yet
  subs         \* accepted submissions whose join or handler effect is pending

vars == <<config, states, callbacks, mounteds, timeouts, timers, formStatus,
          inflight, subs>>

-----------------------------------------------------------------------------
(* Bounds of the model *)

\* promises that may be outstanding at the same time: those returned by
\* validators and those returned by onSuccess / onFailure
MaxInflight == 2

-----------------------------------------------------------------------------
(* Values *)

Undefined == "undefined"
Promise == "promise"

\* declaration order of the configured fields (Object.keys(config.current))
Order == <<"a", "b", "c">>

\* raw values a host may put in a field: strings over {x, space}
RawValues == {<<>>, <<"x">>, <<"x", " ">>}

Strategies == {"onChange", "onSuccess", "onBlur", "onSuccessOrBlur", "onSubmit"}

Range(s) == {s[i] : i \in DOMAIN s}

Names == DOMAIN config

RECURSIVE SelectNames(_, _)
SelectNames(s, keep) ==
  IF s = <<>> THEN <<>>
  ELSE IF Head(s) \in keep THEN <<Head(s)>> \o SelectNames(Tail(s), keep)
       ELSE SelectNames(Tail(s), keep)

\* the configured names, in declaration order
Keys == SelectNames(Order, Names)

-----------------------------------------------------------------------------
(* Host-supplied functions of the configuration *)

RECURSIVE TrimStart(_)
TrimStart(s) == IF s # <<>> /\ Head(s) = " " THEN TrimStart(Tail(s)) ELSE s

RECURSIVE TrimEnd(_)
TrimEnd(s) ==
  IF s # <<>> /\ s[Len(s)] = " " THEN TrimEnd(SubSeq(s, 1, Len(s) - 1)) ELSE s

\* sanitize: (value) => value.trim(), as in the example forms
trim(s) == TrimEnd(TrimStart(s))

identity(value) == value

\* the message a field's validator answers for an empty value
ErrorMessage(name) ==
  CASE name = "a" -> "a is required"
    [] name = "b" -> "b is required"
    [] OTHER      -> "c is required"

\* validate: (value) => { if (value === "") return "... is required" }
required(name, value) == IF value = <<>> THEN ErrorMessage(name) ELSE Undefined

\* a noop that answers an error
noopFailing(value) == "invalid"

\* const noop = () => {}
noop(value) == Undefined

ObjectIs(value1, value2) == value1 = value2

\* equalityFn: (value1, value2) => value1.trim() === value2.trim()
trimEqual(value1, value2) == trim(value1) = trim(value2)

-----------------------------------------------------------------------------
(* Configuration access *)

getConfig(name) == config[name]

\* an option the host left out is absent from the record (x ?? default)
Has(name, option) == option \in DOMAIN getConfig(name)

getDebounceInterval(name) ==
  IF Has(name, "debounceInterval") THEN getConfig(name).debounceInterval ELSE 0

getEqualityFn(name, value1, value2) ==
  IF Has(name, "equalityFn") THEN trimEqual(value1, value2)
  ELSE ObjectIs(value1, value2)

getInitialValue(name) == getConfig(name).initialValue

getSanitize(name, value) ==
  IF Has(name, "sanitize") THEN trim(value) ELSE identity(value)

getStrategy(name) ==
  IF Has(name, "strategy") THEN getConfig(name).strategy ELSE "onSuccessOrBlur"

\* the function getValidate returns: the configured validator, or noop
getValidate(name) ==
  IF Has(name, "validate") THEN getConfig(name).validate ELSE "noop"

\* what calling that function on a value yields: an error, undefined, or a
\* promise (whose outcome is decided when it settles)
callValidate(name, value) ==
  CASE getValidate(name) = "noop"  -> noop(value)
    [] getValidate(name) = "sync"  -> required(name, value)
    [] getValidate(name) = "async" -> Promise

\* JavaScript truthiness of a function value
Truthy(fn) == TRUE

isPromise(value) == value = Promise

-----------------------------------------------------------------------------
(* The mutable maps an entry point works on, and what it emits.  One entry  *)
(* point runs to completion: the operators below thread a record w through  *)
(* the calls the code makes.                                                *)

World ==
  [states     |-> states,
   timeouts   |-> timeouts,
   timers     |-> timers,
   formStatus |-> formStatus,
   inflight   |-> inflight,
   subs       |-> subs,
   calls      |-> <<>>,   \* validator invocations <<name, value>>, in order
   ran        |-> <<>>,   \* runCallbacks(name) calls, in order
   focused    |-> <<>>,   \* focusField(name) requests, in order
   handled    |-> <<>>]   \* onSuccess / onFailure invocations, in order

isMounted(name) == mounteds[name]

isTalkative(w, name) == w.states[name].talkative

transformState(name, state, sanitize) ==
  LET value == IF sanitize THEN getSanitize(name, state.value) ELSE state.value
  IN IF ~state.talkative \/ state.validity.type = "unknown"
     THEN [value      |-> value,
           validating |-> FALSE,
           valid      |-> ~Truthy(getValidate(name)),
           error      |-> Undefined]
     ELSE [value      |-> value,
           validating |-> state.validity.type = "validating",
           valid      |-> state.validity.type = "valid",
           error      |-> IF state.validity.type = "invalid"
                          THEN state.validity.error ELSE Undefined]

\* clearTimeout(id): a timer that fired or was cleared is not in w.timers
clearTimeout(w, name, id) == [w EXCEPT !.timers = @ \ {<<name, id>>}]

\* setTimeout(callback, interval): a timer with an identifier not in use
setTimeout(w, name) ==
  LET id == CHOOSE i \in 1..(Cardinality(w.timers) + 1) :
              /\ <<name, i>> \notin w.timers
              /\ \A j \in 1..(Cardinality(w.timers) + 1) :
                   <<name, j>> \notin w.timers => i <= j
  IN [w EXCEPT !.timers = @ \cup {<<name, id>>}, !.timeouts[name] = id]

\* clearDebounceTimeout that empties the slot and leaves the host's timer
clearDebounceTimeoutSlotOnly(w, name) ==
  LET timeout   == w.timeouts[name]
      debounced == timeout # 0
  IN [w         |-> IF debounced THEN [w EXCEPT !.timeouts[name] = 0] ELSE w,
      debounced |-> debounced]

clearDebounceTimeout(w, name) ==
  LET timeout   == w.timeouts[name]
      debounced == timeout # 0
  IN [w         |-> IF debounced
                    THEN [clearTimeout(w, name, timeout)
                            EXCEPT !.timeouts[name] = 0]
                    ELSE w,
      debounced |-> debounced]

runCallbacks(w, name) == [w EXCEPT !.ran = Append(@, name)]

\* setTalkative without its strategy filter
setTalkativeUnfiltered(w, name, strategies) ==
  [w EXCEPT !.states[name].talkative = TRUE]

\* strategies = Strategies stands for the call without a second argument
setTalkative(w, name, strategies) ==
  IF getStrategy(name) \in strategies
  THEN [w EXCEPT !.states[name].talkative = TRUE]
  ELSE w

setValidating(w, name) ==
  [w EXCEPT !.states[name].validity = [type |-> "validating"]]

setValidateResult(w, name, error) ==
  [w EXCEPT !.states[name].validity =
     IF error # Undefined THEN [type |-> "invalid", error |-> error]
     ELSE [type |-> "valid"]]

\* getFieldState that does not pass its options on
getFieldStateRaw(w, name, sanitize) == transformState(name, w.states[name], FALSE)

getFieldState(w, name, sanitize) == transformState(name, w.states[name], sanitize)

\* the request to focus a field; ref.current and its focus() are the host's
focusField(w, name) == [w EXCEPT !.focused = Append(@, name)]

\* the synchronous part of internalValidateField; sub and index say which
\* submission (0: none) and which slot of its results the answer belongs to
internalValidateField(w, name, sub, index) ==
  LET cleared      == clearDebounceTimeout(w, name)
      w1           == cleared.w
      valueAtStart == getSanitize(name, w1.states[name].value)
      w2           == [w1 EXCEPT !.calls = Append(@, <<name, valueAtStart>>)]
      promiseOrError == callValidate(name, valueAtStart)
  IN IF ~isPromise(promiseOrError)
     THEN LET w3 == IF promiseOrError = Undefined
                    THEN setTalkative(w2, name, {"onSuccess", "onSuccessOrBlur"})
                    ELSE w2
              w4 == setValidateResult(w3, name, promiseOrError)
          IN [w |-> runCallbacks(w4, name), result |-> promiseOrError]
     ELSE LET w3 == IF ~cleared.debounced
                    THEN runCallbacks(setValidating(w2, name), name)
                    ELSE w2
              p  == [name |-> name, value |-> valueAtStart,
                     sub |-> sub, index |-> index]
          IN [w |-> [w3 EXCEPT !.inflight = @ (+) SetToBag({p})],
              result |-> Promise]

\* settleValidation without its staleness check
settleValidationUnchecked(w, p, fault) ==
  LET name  == p.name
      error == required(name, p.value)
      w0    == [w EXCEPT !.inflight = @ (-) SetToBag({p})]
  IN IF fault THEN [w |-> w0, result |-> Undefined]
     ELSE [w |-> runCallbacks(setValidateResult(w0, name, error), name),
           result |-> error]

\* settleValidation taking a rejected promise for one fulfilled with no error
settleValidationFaultAsValid(w, p, fault) ==
  LET name == p.name
      w0   == [w EXCEPT !.inflight = @ (-) SetToBag({p})]
      w1   == setTalkative(w0, name, {"onSuccess", "onSuccessOrBlur"})
  IN IF fault
     THEN [w |-> runCallbacks(setValidateResult(w1, name, Undefined), name),
           result |-> Undefined]
     ELSE settleValidationUnchecked(w, p, fault)

\* the .then / .catch continuation of internalValidateField, run when the
\* validator's promise p settles; fault = the promise rejected
settleValidation(w, p, fault) ==
  LET name       == p.name
      error      == required(name, p.value)
      valueAtEnd == getSanitize(name, w.states[name].value)
      w0         == [w EXCEPT !.inflight = @ (-) SetToBag({p})]
  IN IF fault THEN [w |-> w0, result |-> Undefined]
     ELSE IF ~getEqualityFn(name, p.value, valueAtEnd)
     THEN [w |-> w0, result |-> Undefined]
     ELSE LET w1 == IF error = Undefined
                    THEN setTalkative(w0, name, {"onSuccess", "onSuccessOrBlur"})
                    ELSE w0
              w2 == setValidateResult(w1, name, error)
          IN [w |-> runCallbacks(w2, name), result |-> error]

-----------------------------------------------------------------------------
(* The handlers given to a Field consumer *)

\* getOnChange without clearDebounceTimeout before it schedules
getOnChangeUncleared(name, value) ==
  LET w1 == [World EXCEPT !.states[name].value = value]
      w2 == setTalkative(w1, name, {"onChange"})
      w4 == IF w2.formStatus \in {"untouched", "submitted"}
            THEN [w2 EXCEPT !.formStatus = "editing"] ELSE w2
  IN IF getDebounceInterval(name) = 0
     THEN internalValidateField(w4, name, 0, 0).w
     ELSE setTimeout(runCallbacks(setValidating(w4, name), name), name)

\* getOnChange(name)(value), run on the maps w
getOnChangeIn(w, name, value) ==
  LET w1 == [w EXCEPT !.states[name].value = value]
      w2 == setTalkative(w1, name, {"onChange"})
      w3 == clearDebounceTimeout(w2, name).w
      w4 == IF w3.formStatus \in {"untouched", "submitted"}
            THEN [w3 EXCEPT !.formStatus = "editing"] ELSE w3
  IN IF getDebounceInterval(name) = 0
     THEN internalValidateField(w4, name, 0, 0).w
     ELSE setTimeout(runCallbacks(setValidating(w4, name), name), name)

\* getOnChange(name)(value)
getOnChange(name, value) == getOnChangeIn(World, name, value)

\* the timer id of a field fires: the callback scheduled by getOnChange
timerCallbackIn(w0, name, id) ==
  LET w == [w0 EXCEPT !.timers = @ \ {<<name, id>>}]
  IN IF isMounted(name)
     THEN internalValidateField(w, name, 0, 0).w
     ELSE clearDebounceTimeout(w, name).w

timerCallback(name, id) == timerCallbackIn(World, name, id)

\* getOnBlur without its condition
getOnBlurUnconditional(name) ==
  internalValidateField(
    setTalkative(World, name, {"onBlur", "onSuccessOrBlur"}), name, 0, 0).w

\* getOnBlur(name)(), run on the maps w
getOnBlurIn(w, name) ==
  IF w.states[name].validity.type # "unknown" /\ ~isTalkative(w, name)
  THEN internalValidateField(
         setTalkative(w, name, {"onBlur", "onSuccessOrBlur"}), name, 0, 0).w
  ELSE w

\* getOnBlur(name)()
getOnBlur(name) == getOnBlurIn(World, name)

-----------------------------------------------------------------------------
(* The imperative API *)

setFieldValueIn(w, name, value, validate) ==
  LET w1 == [w EXCEPT !.states[name].value = value]
      w2 == IF validate THEN setTalkative(w1, name, Strategies) ELSE w1
  IN internalValidateField(w2, name, 0, 0).w

setFieldValue(name, value, validate) ==
  setFieldValueIn(World, name, value, validate)

InitialState(name) ==
  [value     |-> getInitialValue(name),
   talkative |-> FALSE,
   validity  |-> [type |-> "unknown"]]

\* resetField without clearDebounceTimeout
resetFieldUncleared(w, name) ==
  runCallbacks([w EXCEPT !.states[name] = InitialState(name)], name)

resetFieldIn(w, name) ==
  runCallbacks([clearDebounceTimeout(w, name).w
                  EXCEPT !.states[name] = InitialState(name)], name)

resetField(name) == resetFieldIn(World, name)

\* the payload a callback of listenFields(names, listener) hands to listener
listenFields(names) ==
  [name \in names |-> transformState(name, states[name], FALSE)]

\* the state Field hands to its children, read from the subscription
FieldChildren(name) == transformState(name, states[name], FALSE)

\* validateField with setTalkative filtered like an edit's
validateFieldByStrategy(name) ==
  IF ~isMounted(name)
  THEN [w |-> World, result |-> Undefined]
  ELSE internalValidateField(setTalkative(World, name, {"onChange"}), name, 0, 0)

\* result: what the promise validateField returns resolves to, or Promise
\* when that is decided by the validator's promise
validateFieldIn(w, name) ==
  IF ~isMounted(name)
  THEN [w |-> w, result |-> Undefined]
  ELSE internalValidateField(setTalkative(w, name, Strategies), name, 0, 0)

validateField(name) == validateFieldIn(World, name)

RECURSIVE resetEach(_, _)
resetEach(w, names) ==
  IF names = <<>> THEN w
  ELSE resetEach(resetFieldIn(w, Head(names)), Tail(names))

resetFormIn(w) == [resetEach(w, Keys) EXCEPT !.formStatus = "untouched"]

resetForm == resetFormIn(World)

-----------------------------------------------------------------------------
(* Submission *)

isSyncSubmission(results) == \A i \in DOMAIN results : ~isPromise(results[i])

\* findIndex answering the last match
findLastIndex(results) ==
  IF \E i \in DOMAIN results : results[i] # Undefined
  THEN CHOOSE i \in DOMAIN results :
         /\ results[i] # Undefined
         /\ \A j \in DOMAIN results : results[j] # Undefined => j <= i
  ELSE 0

\* results.findIndex((result) => result != null); 0 stands for "not found"
findIndex(results) ==
  IF \E i \in DOMAIN results : results[i] # Undefined
  THEN CHOOSE i \in DOMAIN results :
         /\ results[i] # Undefined
         /\ \A j \in DOMAIN results : results[j] # Undefined => i <= j
  ELSE 0

focusFirstError(w, names, results) ==
  LET index == findIndex(results)
  IN IF index \in DOMAIN names THEN focusField(w, names[index]) ELSE w

\* Keyed pairing the names with the items in reverse
KeyedReversed(names, items) ==
  [n \in Range(names) |->
     items[Len(names) + 1 - (CHOOSE i \in DOMAIN names : names[i] = n)]]

\* an object keyed by names[i] holding items[i]
Keyed(names, items) ==
  [n \in Range(names) |->
     items[CHOOSE i \in DOMAIN names : names[i] = n]]

\* names.forEach: setTalkative, read the sanitized value, validate
RECURSIVE submitEach(_, _, _, _)
submitEach(acc, names, index, sub) ==
  IF index > Len(names) THEN acc
  ELSE LET name == names[index]
           w1   == setTalkative(acc.w, name, Strategies)
           v    == getFieldState(w1, name, TRUE).value
           r    == internalValidateField(w1, name, sub, index)
       IN submitEach([w       |-> r.w,
                      values  |-> Append(acc.values, v),
                      results |-> Append(acc.results, r.result)],
                     names, index + 1, sub)

\* conclude with results.some in the place of results.every
concludeSome(w, s, results) ==
  IF \E i \in DOMAIN results : results[i] = Undefined
  THEN [w EXCEPT !.handled =
          Append(@, [sub |-> s.id, handler |-> "onSuccess",
                     bag |-> Keyed(s.names, s.values)])]
  ELSE [(IF s.shouldFocusOnError
         THEN focusFirstError(w, s.names, results) ELSE w)
          EXCEPT !.handled =
            Append(@, [sub |-> s.id, handler |-> "onFailure",
                       bag |-> Keyed(s.names, results)])]

\* the branch shared by the synchronous flow and the join of the asynchronous
\* flow: onSuccess(values), or focus the first error and onFailure(errors)
conclude(w, s, results) ==
  IF \A i \in DOMAIN results : results[i] = Undefined
  THEN [w EXCEPT !.handled =
          Append(@, [sub |-> s.id, handler |-> "onSuccess",
                     bag |-> Keyed(s.names, s.values)])]
  ELSE [(IF s.shouldFocusOnError
         THEN focusFirstError(w, s.names, results) ELSE w)
          EXCEPT !.handled =
            Append(@, [sub |-> s.id, handler |-> "onFailure",
                       bag |-> Keyed(s.names, results)])]

\* what is left of a submission once its handler was called: it waits for
\* the promise the handler returned
Waiting(s) ==
  [id |-> s.id, phase |-> "effect", names |-> <<>>, values |-> <<>>,
   results |-> <<>>, shouldFocusOnError |-> FALSE]

\* handleSyncEffect, and the .finally of the asynchronous flow; s is not in
\* w.subs.  effect: what the handler returned, "void" or "promise"
handleEffect(w, s, effect) ==
  IF effect = "promise"
  THEN [w EXCEPT !.subs = @ \cup {Waiting(s)}]
  ELSE [w EXCEPT !.formStatus = "submitted"]

\* the smallest identifier no outstanding submission uses
FreeId ==
  CHOOSE i \in 1..(Cardinality(subs) + 1) :
    /\ \A s \in subs : s.id # i
    /\ \A j \in 1..(Cardinality(subs) + 1) : (\A s \in subs : s.id # j) => i <= j

\* the names without the filter on the mount flag
AllNames == Keys

\* Object.keys(mounteds.current).filter((name) => mounteds.current[name])
MountedNames == SelectNames(Keys, {n \in Names : mounteds[n]})

\* submitForm past its guard
acceptSubmit(avoidFocusOnError, effect) ==
  LET names == MountedNames
      w0    == [World EXCEPT !.formStatus = "submitting"]
      acc   == submitEach([w |-> w0, values |-> <<>>, results |-> <<>>],
                          names, 1, FreeId)
      s     == [id      |-> FreeId,
                phase   |-> "join",
                names   |-> names,
                values  |-> acc.values,
                results |-> acc.results,
                shouldFocusOnError |-> ~avoidFocusOnError]
  IN IF isSyncSubmission(acc.results)
     THEN handleEffect(conclude(acc.w, s, acc.results), s, effect)
     ELSE [acc.w EXCEPT !.subs = @ \cup {s}]

\* submitForm without its guard
submitFormUnguarded(avoidFocusOnError, effect) ==
  acceptSubmit(avoidFocusOnError, effect)

submitForm(avoidFocusOnError, effect) ==
  IF formStatus = "submitting" THEN World  \* Avoid concurrent submissions
  ELSE acceptSubmit(avoidFocusOnError, effect)

\* a validator's promise p settles (fault: it rejects).  When p belongs to a
\* submission, its slot of the results is filled; when it was the last one
\* the submission waited for, the join (Promise.all) calls the handler
settle(p, fault, effect) ==
  LET r == settleValidation(World, p, fault)
  IN IF p.sub = 0 THEN r.w
     ELSE LET s       == CHOOSE x \in subs : x.id = p.sub
              results == [s.results EXCEPT ![p.index] = r.result]
              w1      == [r.w EXCEPT !.subs = @ \ {s}]
          IN IF isSyncSubmission(results)
             THEN handleEffect(conclude(w1, s, results), s, effect)
             ELSE [w1 EXCEPT !.subs = @ \cup {[s EXCEPT !.results = results]}]

\* settleEffect leaving formStatus as it is
settleEffectSilent(s) == [World EXCEPT !.subs = @ \ {s}]

\* the promise a handler returned settles (fulfilled or rejected)
settleEffect(s) ==
  [World EXCEPT !.subs = @ \ {s}, !.formStatus = "submitted"]

-----------------------------------------------------------------------------
(* Initial state: the lazy initialization of useForm *)

InitWith(forms) ==
  /\ config \in forms
  /\ states = [name \in Names |-> InitialState(name)]
  /\ callbacks = [name \in Names |-> {}]
  /\ mounteds = [name \in Names |-> FALSE]
  /\ timeouts = [name \in Names |-> 0]
  /\ timers = {}
  /\ formStatus = "untouched"
  /\ inflight = EmptyBag
  /\ subs = {}

-----------------------------------------------------------------------------
(* Actions.  Commit(w) makes the maps of w the next state; Room keeps the   *)
(* promises outstanding within the model's bound.                           *)

Commit(w) ==
  /\ states' = w.states
  /\ timeouts' = w.timeouts
  /\ timers' = w.timers
  /\ formStatus' = w.formStatus
  /\ inflight' = w.inflight
  /\ subs' = w.subs
  /\ UNCHANGED <<config, callbacks, mounteds>>

Room(w) ==
  BagCardinality(w.inflight)
    + Cardinality({s \in w.subs : s.phase = "effect"}) <= MaxInflight

\* the entry point whose outcome is out runs, if the bound leaves room
Step(out) == \E w \in {out} : Room(w) /\ Commit(w)

\* the Field consumer mounts: it subscribes, then marks the field mounted
Mount(name) ==
  /\ ~mounteds[name]
  /\ mounteds' = [mounteds EXCEPT ![name] = TRUE]
  /\ callbacks' = [callbacks EXCEPT ![name] = @ \cup {<<"Field", name>>}]
  /\ UNCHANGED <<config, states, timeouts, timers, formStatus, inflight, subs>>

Unmount(name) ==
  /\ mounteds[name]
  /\ mounteds' = [mounteds EXCEPT ![name] = FALSE]
  /\ callbacks' = [callbacks EXCEPT ![name] = @ \ {<<"Field", name>>}]
  /\ UNCHANGED <<config, states, timeouts, timers, formStatus, inflight, subs>>

\* onChange and onBlur are handed to the rendered consumer only: the host
\* calls them for a mounted field
Change(name, value) ==
  /\ mounteds[name]
  /\ Step(getOnChange(name, value))

Blur(name) ==
  /\ mounteds[name]
  /\ Step(getOnBlur(name))

TimerFire(name, id) ==
  /\ <<name, id>> \in timers
  /\ Step(timerCallback(name, id))

SetFieldValue(name, value, validate) ==
  Step(setFieldValue(name, value, validate))

ResetField(name) == Step(resetField(name))

ValidateField(name) == Step(validateField(name).w)

ResetForm == Step(resetForm)

\* effect is what the handler returns, when the call reaches a handler
SubmitForm(avoidFocusOnError, effect) ==
  /\ effect = "promise" =>
       submitForm(avoidFocusOnError, effect) # submitForm(avoidFocusOnError, "void")
  /\ Step(submitForm(avoidFocusOnError, effect))

Settle(p, fault, effect) ==
  /\ p \in BagToSet(inflight)
  /\ effect = "promise" => settle(p, fault, effect) # settle(p, fault, "void")
  /\ Step(settle(p, fault, effect))

SettleEffect(s) ==
  /\ s \in subs
  /\ s.phase = "effect"
  /\ Step(settleEffect(s))

-----------------------------------------------------------------------------
(* Specifications *)

Effects == {"void", "promise"}

Next ==
  \/ \E name \in Names : Mount(name)
  \/ \E name \in Names : Unmount(name)
  \/ \E name \in Names, value \in RawValues : Change(name, value)
  \/ \E t \in timers : TimerFire(t[1], t[2])
  \/ \E name \in Names : Blur(name)
  \/ \E name \in Names, value \in RawValues, validate \in BOOLEAN :
       SetFieldValue(name, value, validate)
  \/ \E name \in Names : ResetField(name)
  \/ \E name \in Names : ValidateField(name)
  \/ ResetForm
  \/ \E avoidFocusOnError \in BOOLEAN, effect \in Effects :
       SubmitForm(avoidFocusOnError, effect)
  \/ \E p \in BagToSet(inflight), fault \in BOOLEAN, effect \in Effects :
       Settle(p, fault, effect)
  \/ \E s \in subs : SettleEffect(s)

Field(strategy, debounceInterval, validate) ==
  [initialValue |-> <<>>, strategy |-> strategy,
   debounceInterval |-> debounceInterval, sanitize |-> "trim",
   validate |-> validate]

\* a field configured with its initial value only: every option defaults
Bare == [initialValue |-> <<>>]

\* a field that compares values with its own equalityFn and does not
\* sanitize them; strategy and debounceInterval default
Loose == [initialValue |-> <<>>, equalityFn |-> "trimEqual", validate |-> "async"]

\* forms of one field
Forms ==
  {[a |-> Field("onBlur", 1, "async")],
   [a |-> Loose],
   [a |-> Field("onChange", 1, "sync")],
   [a |-> Field("onSuccess", 0, "sync")],
   [a |-> Field("onSubmit", 0, "sync")],
   [a |-> Bare]}

Init == InitWith(Forms)

Spec == Init /\ [][Next]_vars

\* Runs made of edits only: the consumer mounts, the host edits, and the
\* timers and validations those edits cause fire and settle
EditForms ==
  {[a |-> Field("onBlur", 0, "sync")],
   [a |-> Field("onBlur", 1, "sync")],
   [a |-> Field("onBlur", 0, "async")],
   [a |-> Field("onBlur", 1, "async")],
   [a |-> Field("onChange", 1, "sync")],
   [a |-> [initialValue |-> <<>>, debounceInterval |-> 1, validate |-> "async"]]}

InitEdits == InitWith(EditForms)

NextEdits ==
  \/ \E name \in Names : Mount(name)
  \/ \E name \in Names : Unmount(name)
  \/ \E name \in Names, value \in RawValues : Change(name, value)
  \/ \E t \in timers : TimerFire(t[1], t[2])
  \/ \E p \in BagToSet(inflight), fault \in BOOLEAN : Settle(p, fault, "void")

SpecEdits == InitEdits /\ [][NextEdits]_vars

\* Forms of several fields, submitted while the host mounts, unmounts and
\* edits them
SubmitForms ==
  {[a |-> Field("onBlur", 0, "async"), b |-> Field("onChange", 0, "sync")],
   [a |-> Field("onSubmit", 0, "async"), b |-> Field("onSuccess", 0, "async")],
   [a |-> Field("onBlur", 0, "sync"), b |-> Field("onSubmit", 0, "sync"),
    c |-> Field("onChange", 0, "sync")]}

InitSubmit == InitWith(SubmitForms)

NextSubmit ==
  \/ \E name \in Names : Mount(name)
  \/ \E name \in Names : Unmount(name)
  \/ \E name \in Names, value \in RawValues : Change(name, value)
  \/ \E avoidFocusOnError \in BOOLEAN, effect \in Effects :
       SubmitForm(avoidFocusOnError, effect)
  \/ \E p \in BagToSet(inflight), fault \in BOOLEAN, effect \in Effects :
       Settle(p, fault, effect)
  \/ \E s \in subs : SettleEffect(s)

SpecSubmit == InitSubmit /\ [][NextSubmit]_vars

\* Runs in which the promises of a submission settle: a promise a validator
\* returned to submitForm and a promise a handler returned are each settled
\* by the host, sooner or later.
\* The form has two fields that validate with a promise
SettlingForms ==
  {[a |-> Field("onSubmit", 0, "async"), b |-> Field("onSuccess", 0, "async")]}

InitSettling == InitWith(SettlingForms)

\* a submission in progress holds a promise: at most MaxInflight of them
SubIds == 1..MaxInflight

\* the slots of the results of a submission of the two fields
Slots == 1..2

\* the promise submission id waits for in slot index of its results
Awaited(id, index) ==
  {p \in BagToSet(inflight) : p.sub = id /\ p.index = index}

\* the promise the handler of submission id returned
Effecting(id) == {s \in subs : s.id = id /\ s.phase = "effect"}

Settling ==
  /\ \A id \in SubIds, index \in Slots :
       WF_vars(\E p \in Awaited(id, index), fault \in BOOLEAN, effect \in Effects :
                 Settle(p, fault, effect))
  /\ \A id \in SubIds : WF_vars(\E s \in Effecting(id) : SettleEffect(s))

\* the fields are mounted and stay mounted while the host edits and submits
\* (with avoidFocusOnError, which has no part in the form status)
NextSettling ==
  \/ \E name \in Names : Mount(name)
  \/ \E name \in Names, value \in RawValues : Change(name, value)
  \/ \E effect \in Effects : SubmitForm(TRUE, effect)
  \/ \E p \in BagToSet(inflight), fault \in BOOLEAN, effect \in Effects :
       Settle(p, fault, effect)
  \/ \E s \in subs : SettleEffect(s)

SpecSettling == InitSettling /\ [][NextSettling]_vars /\ Settling

\* Forms in which a field has no validator, next to a field that has one
PlainForms ==
  {[a |-> Field("onSubmit", 0, "async"),
    b |-> [initialValue |-> <<>>, strategy |-> "onBlur", debounceInterval |-> 1]]}

InitPlain == InitWith(PlainForms)

\* the fields are mounted and stay mounted; the host edits, blurs, validates,
\* sets, resets and submits them (with the focus on the first error)
NextPlain ==
  \/ \E name \in Names : Mount(name)
  \/ \E name \in Names, value \in RawValues : Change(name, value)
  \/ \E t \in timers : TimerFire(t[1], t[2])
  \/ \E name \in Names : Blur(name)
  \/ \E name \in Names : ValidateField(name)
  \/ \E name \in Names, value \in RawValues :
       SetFieldValue(name, value, FALSE)
  \/ ResetForm
  \/ \E effect \in Effects : SubmitForm(FALSE, effect)
  \/ \E p \in BagToSet(inflight), fault \in BOOLEAN, effect \in Effects :
       Settle(p, fault, effect)
  \/ \E s \in subs : SettleEffect(s)

SpecPlain == InitPlain /\ [][NextPlain]_vars

\* Two fields that differ in their strategy only and receive the same calls:
\* every call of the host is made for a and then for b, the timers of the
\* two fields fire together, and a submission or a reset of the form covers
\* both
TwinForms ==
  {[a |-> Field(sa, 1, "sync"), b |-> Field(sb, 1, "sync")] :
     sa \in Strategies, sb \in Strategies}

InitTwin == InitWith(TwinForms) /\ config.a.strategy # config.b.strategy

Twins == mounteds["a"] /\ mounteds["b"]

TwinChange(value) ==
  /\ Twins
  /\ Step(getOnChangeIn(getOnChangeIn(World, "a", value), "b", value))

TwinBlur ==
  /\ Twins
  /\ Step(getOnBlurIn(getOnBlurIn(World, "a"), "b"))

TwinSetFieldValue(value, validate) ==
  /\ Twins
  /\ Step(setFieldValueIn(setFieldValueIn(World, "a", value, validate),
                          "b", value, validate))

TwinValidateField ==
  /\ Twins
  /\ Step(validateFieldIn(validateFieldIn(World, "a").w, "b").w)

TwinResetField ==
  /\ Twins
  /\ Step(resetFieldIn(resetFieldIn(World, "a"), "b"))

\* the pending timer of a field fires, if it has one
fireIn(w, name) ==
  IF \E t \in w.timers : t[1] = name
  THEN timerCallbackIn(w, name, (CHOOSE t \in w.timers : t[1] = name)[2])
  ELSE w

TwinTimerFire ==
  /\ Twins
  /\ timers # {}
  /\ Step(fireIn(fireIn(World, "a"), "b"))

NextTwin ==
  \/ \E name \in Names : Mount(name)
  \/ \E value \in RawValues : TwinChange(value)
  \/ TwinBlur
  \/ \E value \in RawValues, validate \in BOOLEAN :
       TwinSetFieldValue(value, validate)
  \/ TwinValidateField
  \/ TwinResetField
  \/ TwinTimerFire
  \/ Twins /\ ResetForm
  \/ \E avoidFocusOnError \in BOOLEAN :
       Twins /\ SubmitForm(avoidFocusOnError, "void")

SpecTwin == InitTwin /\ [][NextTwin]_vars

\* the timers pending for a field
TimersOf(pending, name) == {t \in pending : t[1] = name}

\* Runs without a fault in which every timer fires and every validation
\* settles: the consumer mounts and unmounts, the host edits and blurs, and
\* each pending timer and each outstanding promise of a field is served,
\* sooner or later
FaultlessForms ==
  {[a |-> Field("onBlur", 1, "sync")],
   [a |-> Field("onChange", 1, "async")],
   [a |-> Field("onSuccess", 0, "async")]}

InitFaultless == InitWith(FaultlessForms)

NextFaultless ==
  \/ \E name \in Names : Mount(name)
  \/ \E name \in Names : Unmount(name)
  \/ \E name \in Names, value \in RawValues : Change(name, value)
  \/ \E name \in Names : Blur(name)
  \/ \E t \in timers : TimerFire(t[1], t[2])
  \/ \E p \in BagToSet(inflight) : Settle(p, FALSE, "void")

\* the promises outstanding for the validation of a value of a field
Validating(name, value) ==
  {p \in BagToSet(inflight) : p.name = name /\ p.value = value}

Served ==
  /\ \A name \in Range(Order) :
       WF_vars(\E t \in TimersOf(timers, name) : TimerFire(t[1], t[2]))
  /\ \A name \in Range(Order), value \in RawValues :
       WF_vars(\E p \in Validating(name, value) : Settle(p, FALSE, "void"))

SpecFaultless == InitFaultless /\ [][NextFaultless]_vars /\ Served

-----------------------------------------------------------------------------
(* Properties.  A property of what an entry point does is stated over every *)
(* reachable state and every input of the entry point: the outcome the      *)
(* operator computes there is the step the action takes.                    *)

\* p is stale: the field's sanitized value is no longer the value captured
\* when the validation started, per the field's equality function
Stale(p) ==
  ~getEqualityFn(p.name, p.value, getSanitize(p.name, states[p.name].value))

\* C1: settling a deferred validation whose captured value differs from the
\* field's current sanitized value changes no FieldState (validity and
\* talkative included) and runs no callbacks, in every reachable state
C1_StalenessDiscard ==
  \A p \in BagToSet(inflight), effect \in Effects :
    Stale(p) =>
      LET w == settle(p, FALSE, effect)
      IN /\ w.states = states
         /\ w.ran = <<>>

\* a stale promise is outstanding for a field that another validation has
\* meanwhile marked, and for a field whose strategy a success would unlock
C1_Witness ==
  \E p \in BagToSet(inflight) :
    /\ Stale(p)
    /\ required(p.name, p.value) = Undefined
    /\ states[p.name].validity.type = "validating"
    /\ ~states[p.name].talkative
    /\ getStrategy(p.name) = "onSuccessOrBlur"

\* the submissions in progress: accepted, and their validations or their
\* handler's effect have not completed
InProgress == subs

\* C2: at most one submission is in progress at any time
C2_AtMostOneSubmission == Cardinality(InProgress) <= 1

\* C3: submitForm while formStatus is submitting invokes no validator and no
\* handler, now or later (no promise and no submission is added), requests
\* no focus, and leaves formStatus, every FieldState and every debounce slot
\* as they were
C3_SubmitReentrancy ==
  formStatus = "submitting" =>
    \A avoidFocusOnError \in BOOLEAN, effect \in Effects :
      LET w == submitForm(avoidFocusOnError, effect)
      IN /\ w.calls = <<>>
         /\ w.handled = <<>>
         /\ w.focused = <<>>
         /\ w.ran = <<>>
         /\ w.inflight = inflight
         /\ w.subs = subs
         /\ w.formStatus = formStatus
         /\ w.states = states
         /\ w.timeouts = timeouts
         /\ w.timers = timers

\* a submission waits for a validation of a mounted field while a debounce
\* timer is pending: a second submitForm would have work to do
C3_Witness ==
  /\ formStatus = "submitting"
  /\ \E s \in subs : s.phase = "join"
  /\ \E name \in Names : mounteds[name] /\ timeouts[name] # 0

\* the names whose validator the outcome w invoked
Validated(w) == {w.calls[i][1] : i \in DOMAIN w.calls}

\* C6: under SpecEdits (edits of a field, and the timers and validations they
\* cause), a field with strategy onBlur is never talkative and its projected
\* state shows no error, not valid and not validating
C6_OnBlurGating ==
  \A name \in Names :
    getStrategy(name) = "onBlur" =>
      /\ ~states[name].talkative
      /\ getFieldState(World, name, FALSE).error = Undefined
      /\ ~getFieldState(World, name, FALSE).valid
      /\ ~getFieldState(World, name, FALSE).validating

\* an onBlur field is internally invalid after an edit
C6_Witness ==
  \E name \in Names :
    /\ getStrategy(name) = "onBlur"
    /\ states[name].validity.type = "invalid"
    /\ mounteds[name]

\* C7: a blur of a field whose validity is known and that is not talkative
\* runs exactly one validation of it, leaves no debounce timer pending and
\* makes it talkative under onBlur and onSuccessOrBlur; a blur of a field
\* whose validity is unknown or that is talkative invokes no validator,
\* runs no callbacks and changes nothing
C7_Blur ==
  \A name \in Names :
    LET w == getOnBlur(name)
    IN IF states[name].validity.type # "unknown" /\ ~states[name].talkative
       THEN /\ w.calls = <<<<name, getSanitize(name, states[name].value)>>>>
            /\ w.timeouts[name] = 0
            /\ TimersOf(w.timers, name) = {}
            /\ getStrategy(name) \in {"onBlur", "onSuccessOrBlur"}
                 => w.states[name].talkative
       ELSE /\ w.calls = <<>>
            /\ w.ran = <<>>
            /\ w.states = states
            /\ w.timeouts = timeouts
            /\ w.timers = timers
            /\ w.inflight = inflight

\* a mounted onBlur field was edited, is not talkative, and its debounce
\* timer is pending
C7_Witness ==
  \E name \in Names :
    /\ mounteds[name]
    /\ getStrategy(name) = "onBlur"
    /\ states[name].validity.type # "unknown"
    /\ ~states[name].talkative
    /\ timeouts[name] # 0

\* C8: for a field with a debounce interval, under SpecEdits: at most one
\* timer is pending; an edit invokes no validator, writes its value and
\* leaves exactly one timer pending; a timer that fires invokes the validator
\* at most once, with the sanitized current value, and leaves none pending;
\* timers and settlements leave the value as the last edit wrote it
C8_DebounceCoalescing ==
  \A name \in Names :
    getDebounceInterval(name) # 0 =>
      /\ Cardinality(TimersOf(timers, name)) <= 1
      /\ \A value \in RawValues :
           LET w == getOnChange(name, value)
           IN /\ w.calls = <<>>
              /\ w.states[name].value = value
              /\ Cardinality(TimersOf(w.timers, name)) = 1
      /\ \A t \in TimersOf(timers, name) :
           LET w == timerCallback(name, t[2])
           IN /\ w.calls = IF mounteds[name]
                           THEN <<<<name, getSanitize(name, states[name].value)>>>>
                           ELSE <<>>
              /\ w.states[name].value = states[name].value
              /\ TimersOf(w.timers, name) = {}
      /\ \A p \in BagToSet(inflight), fault \in BOOLEAN :
           /\ settle(p, fault, "void").calls = <<>>
           /\ settle(p, fault, "void").states[name].value = states[name].value

\* a timer is pending for a field whose value an earlier edit of the same
\* burst already changed, while a validation of an earlier value is running
C8_Witness ==
  \E name \in Names :
    /\ getDebounceInterval(name) # 0
    /\ mounteds[name]
    /\ timeouts[name] # 0
    /\ states[name].value = <<"x", " ">>
    /\ inflight # EmptyBag

\* C9: no operation invokes the validator of an unmounted field
C9_NoValidationWhileUnmounted ==
  \A name \in Names :
    ~mounteds[name] =>
      /\ name \notin Validated(validateField(name).w)
      /\ \A value \in RawValues, validate \in BOOLEAN :
           name \notin Validated(setFieldValue(name, value, validate))
      /\ \A t \in TimersOf(timers, name) :
           name \notin Validated(timerCallback(name, t[2]))
      /\ \A avoidFocusOnError \in BOOLEAN, effect \in Effects :
           name \notin Validated(submitForm(avoidFocusOnError, effect))

\* the mounted fields
Mounted == {name \in Names : mounteds[name]}

\* the submissions of a set that wait for validations
Joining(set) == {s \in set : s.phase = "join"}

\* the slots of its results a submission still waits for
Pending(s) == {i \in DOMAIN s.results : s.results[i] = Promise}

\* what the validator of a field answers for its sanitized current value
Verdict(name) ==
  IF Has(name, "validate")
  THEN required(name, getSanitize(name, states[name].value))
  ELSE Undefined

\* the result a submission collects from the promise p: the validator's
\* error when it is applied, nothing when p faults or is stale
Collected(p, fault) ==
  IF fault \/ Stale(p) THEN Undefined ELSE required(p.name, p.value)

\* the outcome w calls exactly one handler, once, for submission id: onSuccess
\* with the values when every result is absent, else onFailure with the
\* errors; names, values and results are the submission's, by index
OneHandler(w, id, names, values, results) ==
  /\ Len(w.handled) = 1
  /\ w.handled[1].sub = id
  /\ DOMAIN w.handled[1].bag = Range(names)
  /\ IF \A i \in DOMAIN results : results[i] = Undefined
     THEN /\ w.handled[1].handler = "onSuccess"
          /\ \A i \in DOMAIN names : w.handled[1].bag[names[i]] = values[i]
     ELSE /\ w.handled[1].handler = "onFailure"
          /\ \A i \in DOMAIN names : w.handled[1].bag[names[i]] = results[i]
  /\ \A s \in Joining(w.subs) : s.id # id

\* C4: an accepted submitForm whose results are all immediate calls exactly
\* one handler in the call; one with deferred results calls none, waits for
\* exactly those results, each carried by one outstanding promise, and
\* calls exactly one handler when the last of them settles, none before;
\* the handler is onSuccess(values) when every collected result is absent
\* and onFailure(errors) otherwise; nothing else calls a handler
C4_ExactlyOneHandler ==
  /\ formStatus # "submitting" =>
       \A avoidFocusOnError \in BOOLEAN, effect \in Effects :
         LET w        == submitForm(avoidFocusOnError, effect)
             names    == SelectNames(Order, Mounted)
             values   == [i \in DOMAIN names |->
                            getSanitize(names[i], states[names[i]].value)]
             results  == [i \in DOMAIN names |-> Verdict(names[i])]
             deferred == {i \in DOMAIN names : getValidate(names[i]) = "async"}
         IN IF deferred = {}
            THEN /\ OneHandler(w, FreeId, names, values, results)
                 /\ Joining(w.subs) = Joining(subs)
            ELSE /\ w.handled = <<>>
                 /\ \E s \in Joining(w.subs) :
                      /\ Joining(w.subs) = Joining(subs) \cup {s}
                      /\ s \notin subs
                      /\ s.names = names
                      /\ Pending(s) = deferred
  /\ \A s \in Joining(subs) :
       /\ Pending(s) # {}
       /\ \A i \in Pending(s) :
            \E p \in BagToSet(inflight) :
              /\ p.sub = s.id /\ p.index = i /\ p.name = s.names[i]
              /\ CopiesIn(p, inflight) = 1
              /\ \A q \in BagToSet(inflight) :
                   (q.sub = s.id /\ q.index = i) => q = p
  /\ \A p \in BagToSet(inflight), fault \in BOOLEAN, effect \in Effects :
       LET w == settle(p, fault, effect)
       IN IF p.sub = 0 THEN w.handled = <<>>
          ELSE \E s \in Joining(subs) :
                 /\ s.id = p.sub
                 /\ p.index \in Pending(s)
                 /\ IF Pending(s) = {p.index}
                    THEN OneHandler(w, s.id, s.names, s.values,
                           [s.results EXCEPT ![p.index] = Collected(p, fault)])
                    ELSE /\ w.handled = <<>>
                         /\ \E s2 \in Joining(w.subs) :
                              /\ s2.id = s.id
                              /\ Pending(s2) = Pending(s) \ {p.index}
  /\ \A name \in Names, value \in RawValues :
       getOnChange(name, value).handled = <<>>

\* a submission waits for one deferred result next to an immediate error,
\* and that deferred result will be absent
C4_Witness ==
  \E s \in Joining(subs) :
    /\ Len(s.names) = 2
    /\ Cardinality(Pending(s)) = 1
    /\ \E i \in DOMAIN s.results : s.results[i] \notin {Promise, Undefined}
    /\ \E p \in BagToSet(inflight) :
         p.sub = s.id /\ Collected(p, FALSE) = Undefined

\* position of a name in the declaration order
Position(name) == CHOOSE i \in DOMAIN Order : Order[i] = name

\* the outcome w requests focus as a failed submission must: for the first
\* field in declaration order whose entry of the error bag is an error, and
\* for no other; and not at all when shouldFocus is false or no handler or
\* onSuccess was called
FocusAsDeclared(w, shouldFocus) ==
  IF w.handled = <<>> THEN w.focused = <<>>
  ELSE LET bag  == w.handled[1].bag
           errs == {n \in DOMAIN bag : bag[n] # Undefined}
       IN IF w.handled[1].handler = "onFailure" /\ shouldFocus
          THEN /\ Len(w.focused) = 1
               /\ w.focused[1] \in errs
               /\ \A n \in errs : Position(w.focused[1]) <= Position(n)
          ELSE w.focused = <<>>

\* C5: a failed submission requests focus for exactly one field, the first in
\* declaration order among the submitted fields with an error, whatever the
\* order in which deferred results settled; with avoidFocusOnError, and on
\* success, submitForm requests no focus
C5_FirstErrorFocus ==
  /\ \A avoidFocusOnError \in BOOLEAN, effect \in Effects :
       FocusAsDeclared(submitForm(avoidFocusOnError, effect), ~avoidFocusOnError)
  /\ \A p \in BagToSet(inflight), fault \in BOOLEAN, effect \in Effects :
       LET w == settle(p, fault, effect)
       IN IF p.sub = 0 THEN w.focused = <<>>
          ELSE \A s \in subs :
                 s.id = p.sub => FocusAsDeclared(w, s.shouldFocusOnError)

\* the second field's deferred error has settled and the first field's,
\* also an error, has not: the join will see both
C5_Witness ==
  \E s \in Joining(subs) :
    /\ s.shouldFocusOnError
    /\ Len(s.names) = 2
    /\ Pending(s) = {1}
    /\ s.results[2] # Undefined
    /\ \E p \in BagToSet(inflight) :
         p.sub = s.id /\ p.index = 1 /\ Collected(p, FALSE) # Undefined

\* the sanitized value of a field as the state holds it now
Sanitized(name) == getSanitize(name, states[name].value)

\* the outcome w leaves the state of the fields outside names as it is
Untouched(w, names) ==
  \A name \in Names \ names : w.states[name] = states[name]

\* what an accepted submitForm does with the fields: it validates the mounted
\* fields, each once, and no other; the bag it hands over or the submission
\* it leaves waiting has the mounted fields as keys, in declaration order,
\* with their sanitized values of now; other fields keep their state
CoversMounted(w) ==
  /\ Len(w.calls) = Cardinality(Mounted)
  /\ \A name \in Mounted :
       \E i \in DOMAIN w.calls : w.calls[i] = <<name, Sanitized(name)>>
  /\ Untouched(w, Mounted)
  /\ \A i \in DOMAIN w.handled :
       /\ DOMAIN w.handled[i].bag = Mounted
       /\ w.handled[i].handler = "onSuccess" =>
            \A name \in Mounted : w.handled[i].bag[name] = Sanitized(name)
  /\ \A s \in Joining(w.subs) \ subs :
       /\ s.names = SelectNames(Order, Mounted)
       /\ s.values = [i \in DOMAIN s.names |-> Sanitized(s.names[i])]

\* what the settlement of a promise of submission s does: it validates
\* nothing, touches no field but the promise's own, which s covers, and the
\* bag it hands over has the names of s as keys and, on success, the values
\* of s
CoversCaptured(w, p, s) ==
  /\ w.calls = <<>>
  /\ p.name \in Range(s.names)
  /\ Untouched(w, {p.name})
  /\ \A i \in DOMAIN w.handled :
       /\ DOMAIN w.handled[i].bag = Range(s.names)
       /\ w.handled[i].handler = "onSuccess" =>
            \A j \in DOMAIN s.names : w.handled[i].bag[s.names[j]] = s.values[j]

\* a waiting submission keeps its names and values for as long as it waits
CapturedKept ==
  \A s \in Joining(subs) :
    \A t \in Joining(subs') :
      t.id = s.id => (t.names = s.names /\ t.values = s.values)

\* C10: a submission covers exactly the fields mounted when submitForm is
\* called: it validates those and no other, its values and errors have
\* exactly their names as keys, the values are the sanitized values read at
\* the call, whatever is edited, mounted or unmounted while the submission
\* waits, and the state of the other fields is left as it is
C10_SubmissionCoversMounted ==
  /\ [](/\ formStatus # "submitting" =>
            \A avoidFocusOnError \in BOOLEAN, effect \in Effects :
              CoversMounted(submitForm(avoidFocusOnError, effect))
        /\ \A p \in BagToSet(inflight), fault \in BOOLEAN, effect \in Effects :
             \A s \in subs :
               s.id = p.sub => CoversCaptured(settle(p, fault, effect), p, s))
  /\ [][CapturedKept]_vars

\* a submission waits with the one field it captured while another field
\* has been mounted since and the captured field has been edited
C10_Witness ==
  \E s \in Joining(subs) :
    /\ Range(s.names) # Mounted
    /\ Mounted \ Range(s.names) # {}
    /\ \E i \in DOMAIN s.names : s.values[i] # Sanitized(s.names[i])

\* the projection of a FieldState as it is specified: neutral while the field
\* is not talkative or its validity is unknown, feedback otherwise
Projected(name, state) ==
  IF ~state.talkative \/ state.validity.type = "unknown"
  THEN [validating |-> FALSE,
        valid      |-> ~Has(name, "validate"),
        error      |-> Undefined]
  ELSE [validating |-> state.validity.type = "validating",
        valid      |-> state.validity.type = "valid",
        error      |-> IF state.validity.type = "invalid"
                       THEN state.validity.error ELSE Undefined]

\* the feedback part of a projected state
Feedback(projection) ==
  [validating |-> projection.validating,
   valid      |-> projection.valid,
   error      |-> projection.error]

\* C11: in every reachable state the projected state of every field, as
\* getFieldState answers it, as a listener of listenFields receives it and as
\* the field's consumer receives it, is the specified projection of the
\* field's FieldState; in particular a field that is not talkative or whose
\* validity is unknown is projected valid exactly when it has no validator
C11_Projection ==
  \A name \in Names :
    /\ \A sanitize \in BOOLEAN :
         Feedback(getFieldState(World, name, sanitize))
           = Projected(name, states[name])
    /\ Feedback(listenFields({name})[name]) = Projected(name, states[name])
    /\ Feedback(FieldChildren(name)) = Projected(name, states[name])

\* the maps of an outcome: what is left of it once the call has returned
Maps(w) ==
  [states     |-> w.states,
   timeouts   |-> w.timeouts,
   timers     |-> w.timers,
   formStatus |-> w.formStatus,
   inflight   |-> w.inflight,
   subs       |-> w.subs]

\* C12: in every reachable state with no deferred validation in flight,
\* resetForm() twice in succession leaves the state resetForm() once leaves:
\* every configured field has its initial value, is not talkative and has
\* validity unknown, no debounce timer is pending and formStatus is untouched
C12_ResetIdempotence ==
  inflight = EmptyBag =>
    LET once  == resetForm
        twice == resetFormIn(once)
    IN /\ Maps(twice) = Maps(once)
       /\ \A name \in Names :
            /\ once.states[name].value = getInitialValue(name)
            /\ ~once.states[name].talkative
            /\ once.states[name].validity.type = "unknown"
            /\ once.timeouts[name] = 0
       /\ once.timers = {}
       /\ once.formStatus = "untouched"

\* nothing is in flight and a field differs from its initial state in every
\* component, with a debounce timer pending
C12_Witness ==
  /\ inflight = EmptyBag
  /\ formStatus # "untouched"
  /\ \E name \in Names :
       /\ states[name].value # getInitialValue(name)
       /\ states[name].talkative
       /\ states[name].validity.type # "unknown"
       /\ timeouts[name] # 0
       /\ timers # {}

\* the callbacks an outcome has run: runCallbacks(name) runs every callback
\* registered for name
Notified(w) == UNION {callbacks[w.ran[i]] : i \in DOMAIN w.ran}

\* the outcome w of a synchronous call has notified every listener of every
\* field whose FieldState it changed
NotifiesChanges(w) ==
  \A name \in Names :
    w.states[name] # states[name] => callbacks[name] \subseteq Notified(w)

\* C13: a synchronous call (an edit, a blur, setFieldValue, validateField,
\* resetField, submitForm) that changes the FieldState of a field notifies
\* every listener registered for that field before it returns, whether the
\* validator answers at once or with a promise and whether or not a debounce
\* timer is pending when the call is made
C13_NotificationBeforeReturn ==
  /\ \A name \in Names :
       /\ mounteds[name] =>
            /\ \A value \in RawValues : NotifiesChanges(getOnChange(name, value))
            /\ NotifiesChanges(getOnBlur(name))
       /\ \A value \in RawValues, validate \in BOOLEAN :
            NotifiesChanges(setFieldValue(name, value, validate))
       /\ NotifiesChanges(validateField(name).w)
       /\ NotifiesChanges(resetField(name))
  /\ \A avoidFocusOnError \in BOOLEAN, effect \in Effects :
       NotifiesChanges(submitForm(avoidFocusOnError, effect))

\* C14: when the promise of a field's validator rejects, the validity of the
\* field is left as it is, validating when it was validating, and so are its
\* value and its talkative flag and the FieldState of every other field; no
\* callback is run; the debounce slots are untouched and, for a validation
\* outside a submission, so is formStatus, so that edits, blurs, resets and
\* submits are accepted afterwards as they were before; a submission that
\* waited for the promise is not left waiting for it
C14_ValidationFault ==
  \A p \in BagToSet(inflight), effect \in Effects :
    LET w == settle(p, TRUE, effect)
    IN /\ w.states = states
       /\ states[p.name].validity.type = "validating" =>
            w.states[p.name].validity.type = "validating"
       /\ w.ran = <<>>
       /\ w.timeouts = timeouts
       /\ w.timers = timers
       /\ w.inflight = inflight (-) SetToBag({p})
       /\ p.sub = 0 => (w.formStatus = formStatus /\ w.subs = subs)
       /\ \A s \in Joining(w.subs) : s.id = p.sub => p.index \notin Pending(s)

\* a validation outside any submission is outstanding for a field that is
\* validating, would be found valid and made talkative by a fulfilled
\* promise, while another field has left its initial state
C14_Witness ==
  \E p \in BagToSet(inflight) :
    /\ p.sub = 0
    /\ ~Stale(p)
    /\ states[p.name].validity.type = "validating"
    /\ ~states[p.name].talkative
    /\ getStrategy(p.name) = "onSuccess"
    /\ \E other \in Names \ {p.name} : states[other] # InitialState(other)

\* submission id is in progress: it waits for validations or for the effect
\* of its handler
Submitting(id) == \E s \in subs : s.id = id

\* C15: when every promise of the submission settles, an accepted submitForm call sets
\* formStatus to submitted: at once when no promise is involved, and
\* otherwise in the step that ends the submission; the call does not set it
\* while the promise its handler returned is outstanding
C15_SubmissionLiveness ==
  /\ [](/\ \A s \in subs : s.id \in SubIds
        /\ \A s \in Joining(subs) : Pending(s) \subseteq Slots)
  /\ \A id \in SubIds :
       Submitting(id) ~> (~Submitting(id) /\ formStatus = "submitted")
  /\ [][\A id \in SubIds :
          (Submitting(id) /\ ~Submitting(id)') => formStatus' = "submitted"]_vars
  /\ [](formStatus # "submitting" =>
          \A avoidFocusOnError \in BOOLEAN :
            LET void == submitForm(avoidFocusOnError, "void")
                prom == submitForm(avoidFocusOnError, "promise")
            IN /\ void.handled # <<>> => void.formStatus = "submitted"
               /\ void.handled = <<>> => void.formStatus = "submitting"
               /\ prom.formStatus = "submitting"
               /\ prom.subs # subs)
  /\ [](\A p \in BagToSet(inflight), fault \in BOOLEAN :
          LET void == settle(p, fault, "void")
              prom == settle(p, fault, "promise")
          IN /\ void.handled # <<>> => void.formStatus = "submitted"
             /\ void.handled = <<>> => void.formStatus = formStatus
             /\ prom.formStatus = formStatus
             /\ prom.handled # <<>> =>
                  \E s \in prom.subs : s.id = p.sub /\ s.phase = "effect")

\* a submission waits for the promise its handler returned, after a join
\* that waited for two deferred validations
C15_Witness ==
  /\ formStatus = "submitting"
  /\ \E s \in subs : s.phase = "effect"
  /\ \A name \in {"a", "b"} :
       /\ name \in Names
       /\ getValidate(name) = "async"
       /\ states[name].validity.type \in {"valid", "invalid"}

\* the names of the validator invocations of an outcome, in order
Invoked(w) == [i \in DOMAIN w.calls |-> w.calls[i][1]]

\* the bag handed to onFailure maps name to result
Reports(w, name, result) ==
  \A i \in DOMAIN w.handled :
    w.handled[i].handler = "onFailure" => w.handled[i].bag[name] = result

\* C16: an accepted submission invokes the validators of the mounted fields
\* in declaration order; every result it has collected is the result of the
\* validation of the field in that slot (that field's error for the
\* submitted value, or nothing), every promise it waits for validates the
\* field of its slot, and the error bag handed to onFailure maps each name
\* to the result collected for that field, in whatever order the promises
\* settle
C16_SubmitOrdering ==
  /\ formStatus # "submitting" =>
       \A avoidFocusOnError \in BOOLEAN, effect \in Effects :
         LET w == submitForm(avoidFocusOnError, effect)
         IN /\ Invoked(w) = SelectNames(Order, Mounted)
            /\ \A name \in Mounted : Reports(w, name, Verdict(name))
  /\ \A s \in Joining(subs) :
       /\ s.names = SelectNames(Order, Range(s.names))
       /\ \A i \in DOMAIN s.names :
            IF i \in Pending(s)
            THEN \A p \in Awaited(s.id, i) :
                   p.name = s.names[i] /\ p.value = s.values[i]
            ELSE s.results[i] \in {Undefined, required(s.names[i], s.values[i])}
  /\ \A p \in BagToSet(inflight), fault \in BOOLEAN, effect \in Effects :
       \A s \in Joining(subs) :
         s.id = p.sub =>
           LET w == settle(p, fault, effect)
           IN \A i \in DOMAIN s.names :
                Reports(w, s.names[i],
                      IF i = p.index THEN Collected(p, fault) ELSE s.results[i])

\* the second field's validation has settled without an error before the
\* first field's, which will settle with an error
C16_Witness ==
  \E s \in Joining(subs) :
    /\ Len(s.names) = 2
    /\ Pending(s) = {1}
    /\ s.results[2] = Undefined
    /\ required(s.names[2], s.values[2]) = Undefined
    /\ \E p \in Awaited(s.id, 1) : Collected(p, FALSE) # Undefined

\* the validator invocations of an outcome for the field name
CallsOf(w, name) == {i \in DOMAIN w.calls : w.calls[i][1] = name}

\* C17: validateField on a mounted field and an accepted submitForm, for
\* each mounted field, leave the field talkative, whatever its strategy and
\* whatever its validator answers, and invoke its validator exactly once;
\* validateField on an unmounted field changes nothing, invokes nothing and
\* answers an absent result
C17_ExplicitTriggers ==
  /\ \A name \in Names :
       LET r == validateField(name)
       IN IF mounteds[name]
          THEN /\ r.w.states[name].talkative
               /\ Cardinality(CallsOf(r.w, name)) = 1
               /\ Len(r.w.calls) = 1
          ELSE /\ Maps(r.w) = Maps(World)
               /\ r.w.calls = <<>>
               /\ r.w.ran = <<>>
               /\ r.result = Undefined
  /\ formStatus # "submitting" =>
       \A avoidFocusOnError \in BOOLEAN, effect \in Effects :
         LET w == submitForm(avoidFocusOnError, effect)
         IN \A name \in Mounted :
              /\ w.states[name].talkative
              /\ Cardinality(CallsOf(w, name)) = 1

\* a mounted field of strategy onSubmit that is not talkative and whose
\* validator will answer an error; no submission is in progress
C17_Witness ==
  /\ formStatus # "submitting"
  /\ \E name \in Mounted :
       /\ getStrategy(name) = "onSubmit"
       /\ ~states[name].talkative
       /\ states[name].validity.type = "invalid"
       /\ Verdict(name) # Undefined

\* the fields configured without a validator
Plain == {name \in Names : ~Has(name, "validate")}

\* the handlers an outcome called put no error on a field without validator,
\* and an onFailure among them has the error of a field with a validator
PlainValid(w) ==
  \A i \in DOMAIN w.handled :
    /\ \A name \in Plain \cap DOMAIN w.handled[i].bag :
         w.handled[i].handler = "onFailure" =>
           w.handled[i].bag[name] = Undefined
    /\ w.handled[i].handler = "onFailure" =>
         \E name \in DOMAIN w.handled[i].bag \ Plain :
           w.handled[i].bag[name] # Undefined

\* C18: a field configured without a validator is always valid: its
\* validation answers at once and answers no error, from whichever entry
\* point it runs, and leaves the validity valid; its validity is invalid in
\* no reachable state and no promise is outstanding for it; a submission
\* collects no error for it, and onFailure is called only for the error of a
\* field that has a validator
C18_NoValidatorAlwaysValid ==
  /\ \A name \in Plain :
       /\ states[name].validity.type # "invalid"
       /\ \A p \in BagToSet(inflight) : p.name # name
       /\ \A s \in Joining(subs) :
            \A i \in DOMAIN s.names :
              s.names[i] = name => s.results[i] = Undefined
       /\ LET r == internalValidateField(World, name, 0, 0)
          IN /\ r.result = Undefined
             /\ r.w.states[name].validity.type = "valid"
             /\ r.w.inflight = inflight
       /\ validateField(name).result = Undefined
       /\ \A value \in RawValues, validate \in BOOLEAN :
            /\ setFieldValue(name, value, validate).states[name].validity.type
                 = "valid"
            /\ mounteds[name] /\ getDebounceInterval(name) = 0 =>
                 getOnChange(name, value).states[name].validity.type = "valid"
       /\ \A t \in TimersOf(timers, name) :
            timerCallback(name, t[2]).states[name].validity.type
              \in {"valid", "validating"}
  /\ \A avoidFocusOnError \in BOOLEAN, effect \in Effects :
       PlainValid(submitForm(avoidFocusOnError, effect))
  /\ \A p \in BagToSet(inflight), fault \in BOOLEAN, effect \in Effects :
       PlainValid(settle(p, fault, effect))

\* a field without a validator is mounted next to a mounted field whose
\* validator answers an error, and a submission waits with both
C18_Witness ==
  \E s \in Joining(subs) :
    /\ Len(s.names) = 2
    /\ Range(s.names) \cap Plain # {}
    /\ \E p \in BagToSet(inflight) :
         p.sub = s.id /\ Collected(p, FALSE) # Undefined

\* C19: in every reachable state and for every field, the value that
\* getFieldState(name, {sanitize: true}) answers is the field's sanitizer
\* applied to the value getFieldState(name, {sanitize: false}) answers, and
\* the two answers agree on validating, valid and error
C19_SanitizeRoundTrip ==
  \A name \in Names :
    LET clean == getFieldState(World, name, TRUE)
        raw   == getFieldState(World, name, FALSE)
    IN /\ clean.value = getSanitize(name, raw.value)
       /\ raw.value = states[name].value
       /\ Feedback(clean) = Feedback(raw)

\* a talkative field with a sanitizer holds a value its sanitizer changes
C19_Witness ==
  \E name \in Names :
    /\ Has(name, "sanitize")
    /\ getSanitize(name, states[name].value) # states[name].value
    /\ states[name].talkative
    /\ states[name].validity.type = "valid"

\* every onSuccess an outcome called got values the validators accept
SuccessIsValid(w) ==
  \A i \in DOMAIN w.handled :
    w.handled[i].handler = "onSuccess" =>
      \A name \in DOMAIN w.handled[i].bag :
        Has(name, "validate") => required(name, w.handled[i].bag[name]) = Undefined

\* C20: a submission calls onSuccess only if the validator of every
\* submitted field accepts the value the values bag holds for it: it does
\* not call onSuccess on the strength of a deferred validation that faulted
\* or whose result was discarded as stale
C20_SuccessOnlyIfValid ==
  /\ \A avoidFocusOnError \in BOOLEAN, effect \in Effects :
       SuccessIsValid(submitForm(avoidFocusOnError, effect))
  /\ \A p \in BagToSet(inflight), fault \in BOOLEAN, effect \in Effects :
       LET w == settle(p, fault, effect)
       IN /\ SuccessIsValid(w)
          /\ fault => \A i \in DOMAIN w.handled : w.handled[i].handler # "onSuccess"

\* the settlement of the promise p on the maps w leaves the FieldStates of w
\* as they are and runs no callback
Ignored(w, p, fault) ==
  LET r == settleValidation(w, p, fault)
  IN /\ r.w.states = w.states
     /\ r.w.ran = w.ran

\* C21: a deferred validation started before resetField or resetForm, when it
\* settles after the reset, changes neither the validity nor the talkative
\* flag of the field and runs no callback: the field stays in its initial
\* state, also when the validated value equals the initial value
C21_ResetNotUndone ==
  \A p \in BagToSet(inflight), fault \in BOOLEAN :
    /\ Ignored(resetField(p.name), p, fault)
    /\ Ignored(resetForm, p, fault)
    /\ settleValidation(resetForm, p, fault).w.states[p.name]
         = InitialState(p.name)

\* two validations of one field that overlap: two promises outstanding for
\* the field, p settling before q
Overlapping ==
  {pq \in BagToSet(inflight) \X BagToSet(inflight) :
     /\ pq[1].name = pq[2].name
     /\ pq[1] = pq[2] => CopiesIn(pq[1], inflight) >= 2}

\* the settlement of p on the maps w applied its result: it ran the callbacks
Applied(w, p) == settleValidation(w, p, FALSE).w.ran # w.ran

\* C22 as stated: of two overlapping deferred validations of a field at most
\* one applies its result, in whichever order they settle
C22_AtMostOneApplies ==
  \A pq \in Overlapping :
    LET first == settleValidation(World, pq[1], FALSE).w
    IN ~(Applied(World, pq[1]) /\ Applied(first, pq[2]))

\* C22 amended: each of two overlapping deferred validations of a field
\* applies its result exactly when its captured value matches the field's
\* current sanitized value, in whichever order they settle, and is discarded
\* without a change of the FieldState otherwise; so at most one applies
\* unless both captured values match the current value
C22_MatchingApplies ==
  \A pq \in Overlapping :
    LET p      == pq[1]
        q      == pq[2]
        first  == settleValidation(World, p, FALSE).w
        second == settleValidation(first, q, FALSE).w
    IN /\ Applied(World, p) <=> ~Stale(p)
       /\ Applied(first, q) <=> ~Stale(q)
       /\ Stale(p) => first.states = states
       /\ Stale(q) => second.states = first.states
       /\ ~Stale(q) =>
            second.states[q.name].validity =
              IF required(q.name, q.value) = Undefined
              THEN [type |-> "valid"]
              ELSE [type |-> "invalid", error |-> required(q.name, q.value)]
       /\ (Stale(p) \/ Stale(q)) =>
            ~(Applied(World, p) /\ Applied(first, q))

\* two validations of one field overlap, of different values, the older
\* one's value being the current one again
C22_Witness ==
  \E pq \in Overlapping :
    /\ pq[1].value # pq[2].value
    /\ ~Stale(pq[1])
    /\ Stale(pq[2])
    /\ required(pq[1].name, pq[1].value) # required(pq[2].name, pq[2].value)

\* C23: two fields that differ in their strategy only and receive the same
\* edits, blurs, setFieldValue, validateField, reset and submit calls, with
\* their timers firing together, have the same internal validity (unknown,
\* validating, valid, or invalid) at every step
C23_StrategyGatesVisibilityOnly ==
  /\ states["a"].value = states["b"].value
  /\ states["a"].validity.type = states["b"].validity.type

\* C24: formStatus changes by these transitions only: an edit moves untouched
\* or submitted to editing and leaves editing and submitting; an accepted
\* submitForm moves a status other than submitting to submitting (and on to
\* submitted when the submission completes within the call); the completion
\* of a submission moves submitting to submitted; resetForm moves any status
\* to untouched; setFieldValue, a blur, validateField, resetField and a
\* firing timer leave it as it is
C24_FormStatusTransitions ==
  /\ \A name \in Names :
       /\ \A value \in RawValues :
            /\ getOnChange(name, value).formStatus =
                 IF formStatus \in {"untouched", "submitted"}
                 THEN "editing" ELSE formStatus
            /\ \A validate \in BOOLEAN :
                 setFieldValue(name, value, validate).formStatus = formStatus
       /\ getOnBlur(name).formStatus = formStatus
       /\ validateField(name).w.formStatus = formStatus
       /\ resetField(name).formStatus = formStatus
       /\ \A t \in TimersOf(timers, name) :
            timerCallback(name, t[2]).formStatus = formStatus
  /\ resetForm.formStatus = "untouched"
  /\ \A avoidFocusOnError \in BOOLEAN, effect \in Effects :
       LET w == submitForm(avoidFocusOnError, effect)
       IN IF formStatus = "submitting" THEN w.formStatus = "submitting"
          ELSE w.formStatus = IF w.handled # <<>> /\ effect = "void"
                              THEN "submitted" ELSE "submitting"
  /\ \A p \in BagToSet(inflight), fault \in BOOLEAN, effect \in Effects :
       LET w == settle(p, fault, effect)
       IN w.formStatus # formStatus =>
            formStatus = "submitting" /\ w.formStatus = "submitted"
  /\ \A s \in subs :
       s.phase = "effect" =>
         LET w == settleEffect(s)
         IN w.formStatus # formStatus =>
              formStatus = "submitting" /\ w.formStatus = "submitted"

\* the FieldState the application of the result error leaves for a field:
\* talkative is promoted exactly by an absent result under onSuccess or
\* onSuccessOrBlur, and the validity is valid or invalid with the error
AppliedTo(state, name, error) ==
  [value     |-> state.value,
   talkative |-> \/ state.talkative
                 \/ /\ error = Undefined
                    /\ getStrategy(name) \in {"onSuccess", "onSuccessOrBlur"},
   validity  |-> IF error = Undefined THEN [type |-> "valid"]
                 ELSE [type |-> "invalid", error |-> error]]

\* C25: the application of a validation result, at once for a validator
\* that answers at once and at the settlement of a promise that is not
\* stale, sets talkative to true if and only if the result is absent and the
\* strategy is onSuccess or onSuccessOrBlur, leaves talkative as it was
\* otherwise, and sets the validity to valid or to invalid with the error
C25_SuccessPromotion ==
  /\ \A name \in Names :
       getValidate(name) # "async" =>
         LET r == internalValidateField(World, name, 0, 0)
         IN /\ r.result = callValidate(name, Sanitized(name))
            /\ r.w.states[name] = AppliedTo(states[name], name, r.result)
  /\ \A p \in BagToSet(inflight) :
       ~Stale(p) =>
         LET r == settleValidation(World, p, FALSE)
         IN /\ r.result = required(p.name, p.value)
            /\ r.w.states[p.name] = AppliedTo(states[p.name], p.name, r.result)

\* a promise that is not stale and will fulfil without an error is
\* outstanding for a field of strategy onSuccessOrBlur that is not talkative
C25_Witness ==
  \E p \in BagToSet(inflight) :
    /\ ~Stale(p)
    /\ required(p.name, p.value) = Undefined
    /\ ~states[p.name].talkative
    /\ getStrategy(p.name) = "onSuccessOrBlur"

\* in the maps w no timer is pending for the field name
NoTimer(w, name) == w.timeouts[name] = 0 /\ TimersOf(w.timers, name) = {}

\* in the maps w the pending timers of the field name are the one its slot
\* holds, if it holds one
OneSlot(w, name) ==
  TimersOf(w.timers, name) =
    IF w.timeouts[name] = 0 THEN {} ELSE {<<name, w.timeouts[name]>>}

\* an outcome that invoked the validator of a field left no timer for it
Cancels(w) == \A name \in Validated(w) : NoTimer(w, name)

\* C26: in every reachable state a field has at most one pending debounce
\* timer, the one its slot holds; an edit cancels the pending timer (and
\* leaves the one it schedules, if it schedules one); a validation run, from
\* an edit, a blur, setFieldValue, validateField, submitForm or a firing
\* timer, and resetField leave no timer pending for the field, so that a
\* cancelled timer never fires
C26_SingleDebounceSlot ==
  /\ \A name \in Names :
       /\ OneSlot(World, name)
       /\ \A value \in RawValues :
            LET w == getOnChange(name, value)
            IN /\ OneSlot(w, name)
               /\ Cancels(w)
               /\ Cardinality(TimersOf(w.timers, name)) <= 1
               /\ getDebounceInterval(name) = 0 => NoTimer(w, name)
       /\ Cancels(getOnBlur(name))
       /\ \A value \in RawValues, validate \in BOOLEAN :
            NoTimer(setFieldValue(name, value, validate), name)
       /\ Cancels(validateField(name).w)
       /\ mounteds[name] => NoTimer(validateField(name).w, name)
       /\ NoTimer(resetField(name), name)
       /\ \A t \in TimersOf(timers, name) :
            NoTimer(timerCallback(name, t[2]), name)
  /\ \A avoidFocusOnError \in BOOLEAN, effect \in Effects :
       LET w == submitForm(avoidFocusOnError, effect)
       IN /\ Cancels(w)
          /\ formStatus # "submitting" => \A name \in Mounted : NoTimer(w, name)
          /\ \A name \in Names : OneSlot(w, name)

\* a debounce timer is pending for a mounted field that a blur would
\* validate, while no submission is in progress
C26_Witness ==
  /\ formStatus # "submitting"
  /\ \E name \in Mounted :
       /\ timeouts[name] # 0
       /\ <<name, timeouts[name]>> \in timers
       /\ ~states[name].talkative
       /\ states[name].value # getInitialValue(name)

\* C27: whenever a debounce timer is pending for a field the internal
\* validity of the field is validating, and so, when the timer fires and the
\* validator answers with a promise, the field is validating while that
\* promise is outstanding
C27_TimerImpliesValidating ==
  \A name \in Names :
    /\ timeouts[name] # 0 => states[name].validity.type = "validating"
    /\ \A t \in TimersOf(timers, name) :
         LET w == timerCallback(name, t[2])
         IN w.inflight # inflight => w.states[name].validity.type = "validating"

\* C28: in every run without a fault in which every scheduled timer fires
\* and every deferred validation settles, a field whose validity is
\* validating eventually has another validity, whatever edits, blurs, mounts
\* and unmounts occur in between. A run in which the host does nothing more
\* is one of these runs, so a field that is validating has a timer pending
\* or a validation outstanding that will end it
C28_ValidatingIsAwaited ==
  \A name \in Names :
    states[name].validity.type = "validating"
      => \/ TimersOf(timers, name) # {}
         \/ \E p \in BagToSet(inflight) : p.name = name

====
